---- MODULE Spec2Model ----
(***************************************************************************)
(* Model of the authentication routes of get-ducked-api                    *)
(* (routes/login/index.js): POST /auth/register and POST /auth/login over  *)
(* the users collection, the password hasher, the token signer and the     *)
(* error logger.  Every request is one async handler; the store, the       *)
(* hasher and the comparer are awaited, so requests interleave at those    *)
(* calls and nowhere else.                                                 *)
(*                                                                         *)
(* Encoding.  A string that is inspected character by character (an email) *)
(* is a sequence of one-character strings; a password is a TLA+ string.    *)
(* An optional JavaScript value is <<>> (undefined) or <<v>>.              *)
(***************************************************************************)
EXTENDS Integers, Sequences, FiniteSets, TLC

\* ------------------------------------------------------------------------
\* Bounds of the model
\* ------------------------------------------------------------------------
MaxReq == 2
MaxFaults == 1
MaxQrReq == 3
QrRequests == 1..MaxQrReq

Requests == 1..MaxReq

\* ------------------------------------------------------------------------
\* Request inputs
\* ------------------------------------------------------------------------
EmailA == <<"a", "@", "b", ".", "c">>
EmailUpperA == <<"A", "@", "b", ".", "c">>
EmailNoAt == <<"a", "b">>
EmailNoDot == <<"a", "@", "b">>
EmailSpace == <<"a", " ", "@", "b", ".", "c">>
EmailDotDot == <<"a", "@", "b", ".", ".", "c">>
EmailEmpty == <<>>

ValidEmails == {EmailA, EmailUpperA}
EmailInputs == ValidEmails \cup {EmailNoAt, EmailNoDot, EmailSpace, EmailDotDot, EmailEmpty}

PasswordGood == "password123"
PasswordOther == "12345678"
PasswordShort == "1234567"
PasswordEmpty == ""

PasswordInputs == {PasswordGood, PasswordOther, PasswordShort, PasswordEmpty}

Undefined == <<>>
Some(v) == <<v>>
Opt(S) == {Undefined} \cup {Some(v) : v \in S}

Bodies == [email : Opt(EmailInputs), password : Opt(PasswordInputs)]

\* bodies that pass every check of both routes
CoreBodies == {[email |-> Some(EmailA), password |-> Some(PasswordGood)],
               [email |-> Some(EmailUpperA), password |-> Some(PasswordGood)],
               [email |-> Some(EmailUpperA), password |-> Some(PasswordOther)]}

\* `!value` of a destructured body field holding a string or undefined
Falsy(o, empty) == o = Undefined \/ o[1] = empty

\* ------------------------------------------------------------------------
\* Errors raised by the collaborators
\* ------------------------------------------------------------------------
NoCode == 0
DuplicateKeyCode == 11000

DuplicateKeyError ==
  [message |-> "E11000 duplicate key error", stack |-> "MongoServerError", code |-> DuplicateKeyCode]
\* rejection of a store call / exception of the hasher, comparer or signer
ErrConnection ==
  [message |-> "Database connection failed", stack |-> "Error: connection", code |-> NoCode]
ErrInternal ==
  [message |-> "internal failure", stack |-> "Error: internal", code |-> NoCode]

\* ------------------------------------------------------------------------
\* Body schema of the routes, applied by the framework before the handler
\* ------------------------------------------------------------------------
IsLetter(c) == c \in {"a", "b", "c", "A"}

\* dot-separated non-empty runs of letters (local part / domain of the
\* `email` format)
DotAtoms(s) ==
  /\ Len(s) > 0
  /\ \A i \in 1..Len(s) : IsLetter(s[i]) \/ s[i] = "."
  /\ s[1] # "." /\ s[Len(s)] # "."
  /\ \A i \in 1..(Len(s) - 1) : ~(s[i] = "." /\ s[i + 1] = ".")

FormatEmail(s) ==
  \E i \in 1..Len(s) :
    /\ s[i] = "@"
    /\ DotAtoms(SubSeq(s, 1, i - 1))
    /\ DotAtoms(SubSeq(s, i + 1, Len(s)))
    /\ \E j \in (i + 1)..Len(s) : s[j] = "."

RegisterMinLength == 8

RegisterBodySchema(body) ==
  /\ body.email # Undefined
  /\ body.password # Undefined
  /\ FormatEmail(body.email[1])
  /\ Len(body.password[1]) >= RegisterMinLength

LoginBodySchema(body) ==
  /\ body.email # Undefined
  /\ body.password # Undefined
  /\ FormatEmail(body.email[1])

\* reply of the framework to a body that fails its schema, serialized with
\* the route's 400 response schema
SchemaErrorReply ==
  [status |-> 400, body |-> [error |-> "Bad Request", code |-> "FST_ERR_VALIDATION"]]

\* ------------------------------------------------------------------------
\* Response schemas: only the declared properties are serialized
\* ------------------------------------------------------------------------
Project(rec, props) == [f \in (DOMAIN rec) \cap props |-> rec[f]]

UserProps == {"id", "email", "role"}

Serialize(declared, status, payload) ==
  IF status \notin declared THEN [status |-> status, body |-> payload]
  ELSE IF status \in {200, 201}
    THEN [status |-> status,
          body |-> [f \in (DOMAIN payload) \cap {"token", "user"} |->
                      IF f = "user" THEN Project(payload[f], UserProps) ELSE payload[f]]]
    ELSE IF status = 400
      THEN [status |-> status, body |-> Project(payload, {"error", "code", "field"})]
      ELSE [status |-> status, body |-> Project(payload, {"error", "code"})]

RegisterResponseSchema == {201, 400, 409}
LoginResponseSchema == {200, 400, 401}

RegisterReply(status, payload) == Serialize(RegisterResponseSchema, status, payload)
LoginReply(status, payload) == Serialize(LoginResponseSchema, status, payload)

\* ------------------------------------------------------------------------
\* Handler validation
\* ------------------------------------------------------------------------
IsSpace(c) == c = " "

\* /^[^\s@]+@[^\s@]+\.[^\s@]+$/
emailRegex(s) ==
  \E i \in 2..Len(s) :
    /\ s[i] = "@"
    /\ \A k \in 1..Len(s) : ~IsSpace(s[k]) /\ (s[k] = "@" => k = i)
    /\ \E j \in (i + 2)..(Len(s) - 1) : s[j] = "."

MinPasswordLength == 8

MissingEmail ==
  [error |-> "Missing required field: email", code |-> "VALIDATION_ERROR", field |-> "email"]
MissingPassword ==
  [error |-> "Missing required field: password", code |-> "VALIDATION_ERROR", field |-> "password"]
InvalidEmail ==
  [error |-> "Invalid email format", code |-> "VALIDATION_ERROR", field |-> "email"]
ShortPassword ==
  [error |-> "Password must be at least 8 characters long", code |-> "VALIDATION_ERROR",
   field |-> "password"]

\* <<>> when the body passes, else <<payload of the 400 reply>>
RegisterValidate(body) ==
  IF Falsy(body.email, EmailEmpty) THEN Some(MissingEmail)
  ELSE IF Falsy(body.password, PasswordEmpty) THEN Some(MissingPassword)
  ELSE IF ~emailRegex(body.email[1]) THEN Some(InvalidEmail)
  ELSE IF Len(body.password[1]) < MinPasswordLength THEN Some(ShortPassword)
  ELSE Undefined

LoginValidate(body) ==
  IF Falsy(body.email, EmailEmpty) THEN Some(MissingEmail)
  ELSE IF Falsy(body.password, PasswordEmpty) THEN Some(MissingPassword)
  ELSE Undefined

\* ------------------------------------------------------------------------
\* Collaborators: users collection, password hasher, token signer
\* ------------------------------------------------------------------------
saltRounds == 10

\* variant: the password is stored as submitted
bcryptHashPlain(password, rounds, salt) ==
  [alg |-> "plain", cost |-> 0, salt |-> 0, pw |-> password]

\* bcrypt.hash(password, rounds): a fresh salt per call
bcryptHash(password, rounds, salt) ==
  [alg |-> "bcrypt", cost |-> rounds, salt |-> salt, pw |-> password]

\* variant: a comparison that accepts every password
bcryptCompareAlways(password, hash) == hash.pw = hash.pw

\* variant: hashes the candidate with a salt of its own and compares the strings
bcryptCompareResalted(password, hash) == bcryptHash(password, hash.cost, 0) = hash

\* bcrypt.compare(password, hash)
bcryptCompare(password, hash) == hash.pw = password

\* fastify.jwt.sign(payload)
jwtSign(payload) == [jwt |-> payload]

\* ObjectId.toString()
IdToString(id) == ToString(id)

\* variant: the lookup never finds a document
findOneNothing(store, email) == Undefined

\* variant: a lookup without the email filter
findOneAny(store, email) ==
  IF store # {} THEN Some(CHOOSE u \in store : TRUE) ELSE Undefined

\* usersCollection.findOne({ email }): exact match on the stored value
findOne(store, email) ==
  IF \E u \in store : u.email = email
    THEN Some(CHOOSE u \in store : u.email = email)
    ELSE Undefined

\* variant: the collection has no unique index
UniqueIndexMissing(store, doc) == FALSE

\* the unique index on email rejects a second document with the same value
UniqueIndexViolation(store, doc) == \E u \in store : u.email = doc.email

\* variant: the insertion overwrites the collection
insertOneReplaces(store, doc) == {doc}

\* usersCollection.insertOne(doc), once the index has let the document through
insertOne(store, doc) == store \cup {doc}

\* a record that predates the role field
LegacyUser ==
  [_id |-> 1, email |-> EmailUpperA,
   passwordHash |-> bcryptHash(PasswordGood, saltRounds, 0), createdAt |-> 0]

FirstId == 2

\* variant: the stored role is passed on without a default
RoleNoDefault(user) == IF "role" \in DOMAIN user THEN user.role ELSE ""

\* user.role || 'user'
RoleOrDefault(user) ==
  IF "role" \in DOMAIN user /\ user.role # "" THEN user.role ELSE "user"

\* ------------------------------------------------------------------------
\* State
\* ------------------------------------------------------------------------
VARIABLES
  usersCollection,  \* documents of the users collection
  nextId,           \* next _id the store assigns
  clock,            \* value of the next new Date()
  req,              \* per request: route, body, position, locals, response
  log,              \* calls of fastify.log.error, in order
  faults,           \* infrastructure failures the environment may still raise
  qrCodesCollection, \* documents of the qrCodes collection
  qrReq             \* per QR-code request: route, id, position, document, response

vars == <<usersCollection, nextId, clock, req, log, faults, qrCodesCollection, qrReq>>
qrVars == <<qrCodesCollection, qrReq>>

IdleQrRequest ==
  [route |-> "none", id |-> "", pc |-> "idle", qrCodeShell |-> Undefined,
   response |-> Undefined, fault |-> Undefined]

IdleRequest ==
  [route |-> "none", body |-> [email |-> Undefined, password |-> Undefined],
   pc |-> "idle", user |-> Undefined, newUser |-> Undefined, insertedId |-> Undefined,
   response |-> Undefined, calls |-> <<>>, fault |-> Undefined, after |-> {}]

Init ==
  /\ usersCollection \in {{}, {LegacyUser}}
  /\ nextId = FirstId
  /\ clock = 1
  /\ req = [r \in Requests |-> IdleRequest]
  /\ log = <<>>
  /\ faults = MaxFaults
  /\ qrCodesCollection = {}
  /\ qrReq = [q \in QrRequests |-> IdleQrRequest]

Responded == {r \in Requests : req[r].pc = "done"}

\* requests are numbered in order of arrival
CanStart(r) ==
  /\ req[r].pc = "idle"
  /\ IF r = 1 THEN TRUE ELSE req[r - 1].pc # "idle"

\* outcome of a call: <<>> it returned, <<e>> it failed with e
Outcomes(error) == IF faults > 0 THEN Opt({error}) ELSE {Undefined}
StoreOutcomes == Outcomes(ErrConnection)
LibraryOutcomes == Outcomes(ErrInternal)

Spend(outs) == faults' = faults - Cardinality({o \in outs : o # Undefined})

Respond(r, reply, fields) ==
  req' = [req EXCEPT ![r] = [f \in DOMAIN req[r] |->
            IF f = "pc" THEN "done"
            ELSE IF f = "response" THEN Some(reply)
            ELSE IF f \in DOMAIN fields THEN fields[f]
            ELSE req[r][f]]]

\* variant: a handler that starts over at the lookup after every call
ContinueRestart(r, pc, fields) ==
  req' = [req EXCEPT ![r] = [f \in DOMAIN req[r] |->
            IF f = "pc" THEN "findOne"
            ELSE IF f \in DOMAIN fields THEN fields[f]
            ELSE req[r][f]]]

Continue(r, pc, fields) ==
  req' = [req EXCEPT ![r] = [f \in DOMAIN req[r] |->
            IF f = "pc" THEN pc
            ELSE IF f \in DOMAIN fields THEN fields[f]
            ELSE req[r][f]]]

\* ------------------------------------------------------------------------
\* POST /auth/register
\* ------------------------------------------------------------------------
DuplicateFound ==
  [error |-> "An account with this email already exists", code |-> "DUPLICATE_EMAIL"]
\* variant: the race path answers with a message of its own
DuplicateRacedOther ==
  [error |-> "Duplicate key", code |-> "DUPLICATE_KEY"]

DuplicateRaced ==
  [error |-> "An account with this email already exists", code |-> "DUPLICATE_EMAIL"]
RegistrationFailed ==
  [error |-> "Failed to create account", code |-> "REGISTRATION_ERROR"]

\* variant: the log context leaves out the attempted email
RegistrationLogNoEmail(error, email) ==
  [msg |-> "Registration error", ctx |-> [error |-> error.message, stack |-> error.stack]]

RegistrationLog(error, email) ==
  [msg |-> "Registration error",
   ctx |-> [error |-> error.message, stack |-> error.stack, email |-> email]]

\* variant: the catch block does not tell a duplicate key from other errors
RegisterCatchMissesDuplicate(error, email) ==
  [reply |-> RegisterReply(500, RegistrationFailed), logs |-> <<RegistrationLog(error, email)>>]

\* the catch block: reply and the log entries it writes
RegisterCatch(error, email) ==
  IF error.code = DuplicateKeyCode
    THEN [reply |-> RegisterReply(409, DuplicateRaced), logs |-> <<>>]
    ELSE [reply |-> RegisterReply(500, RegistrationFailed),
          logs |-> <<RegistrationLog(error, email)>>]

\* variant: a catch block that logs and sends no reply
RegisterCaughtSilent(r, error, calls) ==
  LET c == RegisterCatch(error, req[r].body.email[1]) IN
  /\ log' = log \o c.logs
  /\ Continue(r, "caught", [calls |-> calls \o [i \in 1..Len(c.logs) |-> "log"]])

RegisterCaught(r, error, calls) ==
  LET c == RegisterCatch(error, req[r].body.email[1]) IN
  /\ log' = log \o c.logs
  /\ Respond(r, c.reply,
       [calls |-> calls \o [i \in 1..Len(c.logs) |-> "log"],
        fault |-> IF error.code = DuplicateKeyCode THEN Undefined ELSE Some(error)])

\* variant: the response reports the email where the id belongs
RegisterSuccessWrongId(id, newUser) ==
  [token |-> jwtSign([userId |-> IdToString(id), email |-> newUser.email, role |-> newUser.role]),
   user |-> [id |-> "", email |-> newUser.email, role |-> newUser.role]]

RegisterSuccess(id, newUser) ==
  [token |-> jwtSign([userId |-> IdToString(id), email |-> newUser.email, role |-> newUser.role]),
   user |-> [id |-> IdToString(id), email |-> newUser.email, role |-> newUser.role]]

RegisterStart(r, body) ==
  /\ CanStart(r)
  /\ LET arrived == [route |-> "register", body |-> body, after |-> Responded] IN
     IF ~RegisterBodySchema(body)
       THEN Respond(r, SchemaErrorReply, arrived)
       ELSE LET invalid == RegisterValidate(body) IN
            IF invalid # Undefined
              THEN Respond(r, RegisterReply(400, invalid[1]), arrived)
              ELSE Continue(r, "findOne", arrived @@ [calls |-> <<"findOne">>])
  /\ UNCHANGED <<usersCollection, nextId, clock, log, faults, qrCodesCollection, qrReq>>

RegisterFindOne(r) ==
  /\ req[r].route = "register" /\ req[r].pc = "findOne"
  /\ \E out \in StoreOutcomes :
       /\ Spend({out})
       /\ IF out # Undefined
            THEN RegisterCaught(r, out[1], req[r].calls)
            ELSE LET existingUser == findOne(usersCollection, req[r].body.email[1]) IN
                 /\ log' = log
                 /\ IF existingUser # Undefined
                      THEN Respond(r, RegisterReply(409, DuplicateFound), [user |-> existingUser])
                      ELSE Continue(r, "hash", [calls |-> Append(req[r].calls, "hash")])
  /\ UNCHANGED <<usersCollection, nextId, clock, qrCodesCollection, qrReq>>

RegisterHash(r) ==
  /\ req[r].route = "register" /\ req[r].pc = "hash"
  /\ \E out \in LibraryOutcomes :
       /\ Spend({out})
       /\ IF out # Undefined
            THEN RegisterCaught(r, out[1], req[r].calls) /\ clock' = clock
            ELSE LET passwordHash == bcryptHash(req[r].body.password[1], saltRounds, r)
                     newUser == [email |-> req[r].body.email[1], passwordHash |-> passwordHash,
                                 role |-> "user", createdAt |-> clock]
                 IN /\ log' = log
                    /\ clock' = clock + 1
                    /\ Continue(r, "insertOne",
                         [newUser |-> Some(newUser), calls |-> Append(req[r].calls, "insertOne")])
  /\ UNCHANGED <<usersCollection, nextId, qrCodesCollection, qrReq>>

RegisterInsertOne(r) ==
  /\ req[r].route = "register" /\ req[r].pc = "insertOne"
  /\ LET newUser == req[r].newUser[1] IN
     \E out \in StoreOutcomes, signed \in LibraryOutcomes :
       /\ out # Undefined => signed = Undefined
       /\ IF out # Undefined
            THEN /\ RegisterCaught(r, out[1], req[r].calls)
                 /\ UNCHANGED <<usersCollection, nextId>>
            ELSE IF UniqueIndexViolation(usersCollection, newUser)
              THEN /\ signed = Undefined
                   /\ RegisterCaught(r, DuplicateKeyError, req[r].calls)
                   /\ UNCHANGED <<usersCollection, nextId>>
              ELSE /\ usersCollection' = insertOne(usersCollection, [_id |-> nextId] @@ newUser)
                   /\ nextId' = nextId + 1
                   /\ IF signed # Undefined
                        THEN RegisterCaught(r, signed[1], Append(req[r].calls, "sign"))
                        ELSE /\ log' = log
                             /\ Respond(r, RegisterReply(201, RegisterSuccess(nextId, newUser)),
                                  [insertedId |-> Some(nextId),
                                   calls |-> Append(req[r].calls, "sign")])
       /\ Spend({out, signed})
  /\ UNCHANGED <<clock, qrCodesCollection, qrReq>>

\* ------------------------------------------------------------------------
\* POST /auth/login
\* ------------------------------------------------------------------------
\* variant: an unknown email gets a reply of its own
UserNotFoundRevealed ==
  [error |-> "No account with this email", code |-> "USER_NOT_FOUND"]

UserNotFound ==
  [error |-> "Invalid email or password", code |-> "INVALID_CREDENTIALS"]
WrongPassword ==
  [error |-> "Invalid email or password", code |-> "INVALID_CREDENTIALS"]
LoginFailed ==
  [error |-> "Failed to process login", code |-> "LOGIN_ERROR"]

\* variant: the log context leaves out the submitted email
LoginLogNoEmail(error, email) ==
  [msg |-> "Login error", ctx |-> [error |-> error.message, stack |-> error.stack]]

LoginLog(error, email) ==
  [msg |-> "Login error",
   ctx |-> [error |-> error.message, stack |-> error.stack, email |-> email]]

\* variant: the 500 body passes the error's message on
LoginCatchLeaks(error, email) ==
  [reply |-> LoginReply(500, [error |-> error.message, code |-> "LOGIN_ERROR"]),
   logs |-> <<LoginLog(error, email)>>]

LoginCatch(error, email) ==
  [reply |-> LoginReply(500, LoginFailed), logs |-> <<LoginLog(error, email)>>]

LoginCaught(r, error, calls) ==
  LET c == LoginCatch(error, req[r].body.email[1]) IN
  /\ log' = log \o c.logs
  /\ Respond(r, c.reply,
       [calls |-> calls \o [i \in 1..Len(c.logs) |-> "log"], fault |-> Some(error)])

LoginSuccess(user) ==
  [token |-> jwtSign([userId |-> IdToString(user._id), email |-> user.email,
                      role |-> RoleOrDefault(user)]),
   user |-> [id |-> IdToString(user._id), email |-> user.email, role |-> RoleOrDefault(user)]]

\* variant: the lookup is issued before the body is validated
LoginStartLookupFirst(r, body) ==
  /\ CanStart(r)
  /\ LET arrived == [route |-> "login", body |-> body, after |-> Responded] IN
     IF ~LoginBodySchema(body)
       THEN Respond(r, SchemaErrorReply, arrived)
       ELSE LET invalid == LoginValidate(body) IN
            IF invalid # Undefined
              THEN Respond(r, LoginReply(400, invalid[1]), arrived @@ [calls |-> <<"findOne">>])
              ELSE Continue(r, "findOne", arrived @@ [calls |-> <<"findOne">>])
  /\ UNCHANGED <<usersCollection, nextId, clock, log, faults, qrCodesCollection, qrReq>>

LoginStart(r, body) ==
  /\ CanStart(r)
  /\ LET arrived == [route |-> "login", body |-> body, after |-> Responded] IN
     IF ~LoginBodySchema(body)
       THEN Respond(r, SchemaErrorReply, arrived)
       ELSE LET invalid == LoginValidate(body) IN
            IF invalid # Undefined
              THEN Respond(r, LoginReply(400, invalid[1]), arrived)
              ELSE Continue(r, "findOne", arrived @@ [calls |-> <<"findOne">>])
  /\ UNCHANGED <<usersCollection, nextId, clock, log, faults, qrCodesCollection, qrReq>>

LoginFindOne(r) ==
  /\ req[r].route = "login" /\ req[r].pc = "findOne"
  /\ \E out \in StoreOutcomes :
       /\ Spend({out})
       /\ IF out # Undefined
            THEN LoginCaught(r, out[1], req[r].calls)
            ELSE LET user == findOne(usersCollection, req[r].body.email[1]) IN
                 /\ log' = log
                 /\ IF user = Undefined
                      THEN Respond(r, LoginReply(401, UserNotFound), << >>)
                      ELSE Continue(r, "compare",
                             [user |-> user, calls |-> Append(req[r].calls, "compare")])
  /\ UNCHANGED <<usersCollection, nextId, clock, qrCodesCollection, qrReq>>

LoginCompare(r) ==
  /\ req[r].route = "login" /\ req[r].pc = "compare"
  /\ LET user == req[r].user[1] IN
     \E out \in LibraryOutcomes, signed \in LibraryOutcomes :
       /\ out # Undefined => signed = Undefined
       /\ Spend({out, signed})
       /\ IF out # Undefined
            THEN LoginCaught(r, out[1], req[r].calls)
            ELSE LET isValidPassword == bcryptCompare(req[r].body.password[1], user.passwordHash) IN
                 IF ~isValidPassword
                   THEN /\ signed = Undefined
                        /\ log' = log
                        /\ Respond(r, LoginReply(401, WrongPassword), << >>)
                   ELSE IF signed # Undefined
                     THEN LoginCaught(r, signed[1], Append(req[r].calls, "sign"))
                     ELSE /\ log' = log
                          /\ Respond(r, LoginReply(200, LoginSuccess(user)),
                               [calls |-> Append(req[r].calls, "sign")])
  /\ UNCHANGED <<usersCollection, nextId, clock, qrCodesCollection, qrReq>>

\* ------------------------------------------------------------------------
\* GET /qrCode/:id and POST /qrCode/generate
\* ------------------------------------------------------------------------
\* values randomUUID() may return; a repeated value is a collision
Uuids == {"u1", "u2"}

QrGetResponseSchema == {200, 404}
QrGenerateResponseSchema == {201, 500}

\* a declared status is serialized with the properties of its schema
QrSerialize(declared, status, payload) ==
  IF status \notin declared THEN [status |-> status, body |-> payload]
  ELSE IF status \in {200, 201}
    THEN [status |-> status, body |-> Project(payload, {"message"})]
    ELSE [status |-> status, body |-> Project(payload, {"error", "code"})]

\* the handlers catch nothing: a rejected store call reaches the framework's
\* error handler, which replies 500 with the error's message (and code)
DefaultErrorPayload(error) ==
  IF error.code = NoCode
    THEN [statusCode |-> 500, error |-> "Internal Server Error", message |-> error.message]
    ELSE [statusCode |-> 500, error |-> "Internal Server Error", message |-> error.message,
          code |-> ToString(error.code)]

QrEndpoint == [message |-> "QR Code endpoint"]
QrGenerated == [message |-> "QR Code generated"]

\* variant: the collection has no unique index on id
QrUniqueIndexMissing(store, doc) == FALSE

\* createIndex({ id: 1 }, { unique: true })
QrUniqueIndexViolation(store, doc) == \E d \in store : d.id = doc.id

QrCanStart(q) ==
  /\ qrReq[q].pc = "idle"
  /\ IF q = 1 THEN TRUE ELSE qrReq[q - 1].pc # "idle"

QrRespond(q, reply, fault) ==
  qrReq' = [qrReq EXCEPT ![q].pc = "done", ![q].response = Some(reply), ![q].fault = fault]

QrGetStart(q, id) ==
  /\ QrCanStart(q)
  /\ qrReq' = [qrReq EXCEPT ![q].route = "get", ![q].id = id, ![q].pc = "findOne"]
  /\ UNCHANGED <<usersCollection, nextId, clock, req, log, faults, qrCodesCollection>>

QrGetFindOne(q) ==
  /\ qrReq[q].route = "get" /\ qrReq[q].pc = "findOne"
  /\ \E out \in StoreOutcomes :
       /\ Spend({out})
       /\ IF out # Undefined
            THEN QrRespond(q, QrSerialize(QrGetResponseSchema, 500, DefaultErrorPayload(out[1])), out)
            ELSE QrRespond(q, QrSerialize(QrGetResponseSchema, 200, QrEndpoint), Undefined)
  /\ UNCHANGED <<usersCollection, nextId, clock, req, log, qrCodesCollection>>

QrGenerateStart(q, id) ==
  /\ QrCanStart(q)
  /\ LET qrCodeShell == [id |-> id, createdAt |-> clock] IN
     qrReq' = [qrReq EXCEPT ![q].route = "generate", ![q].id = id, ![q].pc = "insertOne",
                            ![q].qrCodeShell = Some(qrCodeShell)]
  /\ clock' = clock + 1
  /\ UNCHANGED <<usersCollection, nextId, req, log, faults, qrCodesCollection>>

QrGenerateInsertOne(q) ==
  /\ qrReq[q].route = "generate" /\ qrReq[q].pc = "insertOne"
  /\ LET qrCodeShell == qrReq[q].qrCodeShell[1] IN
     \E out \in StoreOutcomes :
       /\ Spend({out})
       /\ IF out # Undefined
            THEN /\ QrRespond(q, QrSerialize(QrGenerateResponseSchema, 500,
                                             DefaultErrorPayload(out[1])), out)
                 /\ UNCHANGED qrCodesCollection
            ELSE IF QrUniqueIndexViolation(qrCodesCollection, qrCodeShell)
              THEN /\ QrRespond(q, QrSerialize(QrGenerateResponseSchema, 500,
                                               DefaultErrorPayload(DuplicateKeyError)),
                                Some(DuplicateKeyError))
                   /\ UNCHANGED qrCodesCollection
              ELSE /\ qrCodesCollection' = qrCodesCollection \cup {qrCodeShell}
                   /\ QrRespond(q, QrSerialize(QrGenerateResponseSchema, 200, QrGenerated),
                                Undefined)
  /\ UNCHANGED <<usersCollection, nextId, clock, req, log>>

\* ------------------------------------------------------------------------
\* Specification
\* ------------------------------------------------------------------------
Next ==
  \E r \in Requests :
    \/ \E body \in CoreBodies : RegisterStart(r, body)
    \/ RegisterFindOne(r)
    \/ RegisterHash(r)
    \/ RegisterInsertOne(r)
    \/ \E body \in CoreBodies : LoginStart(r, body)
    \/ LoginFindOne(r)
    \/ LoginCompare(r)

Spec == Init /\ [][Next]_vars

\* one request at a time over every body, well-formed or not
NextInputs ==
  \/ \E body \in Bodies : RegisterStart(1, body)
  \/ RegisterFindOne(1)
  \/ RegisterHash(1)
  \/ RegisterInsertOne(1)
  \/ \E body \in Bodies : LoginStart(1, body)
  \/ LoginFindOne(1)
  \/ LoginCompare(1)

SpecInputs == Init /\ [][NextInputs]_vars

\* the QR-code routes
NextQr ==
  \E q \in QrRequests :
    \/ \E id \in Uuids : QrGetStart(q, id)
    \/ QrGetFindOne(q)
    \/ \E id \in Uuids : QrGenerateStart(q, id)
    \/ QrGenerateInsertOne(q)

SpecQr == Init /\ [][NextQr]_vars

\* every awaited call of a request in flight eventually returns or fails
Fairness ==
  \A r \in Requests :
    /\ WF_vars(RegisterFindOne(r))
    /\ WF_vars(RegisterHash(r))
    /\ WF_vars(RegisterInsertOne(r))
    /\ WF_vars(LoginFindOne(r))
    /\ WF_vars(LoginCompare(r))

FairSpec == Spec /\ Fairness

\* ------------------------------------------------------------------------
\* Properties
\* ------------------------------------------------------------------------
Done(r) == req[r].pc = "done"
Status(r) == req[r].response[1].status
ReplyBody(r) == req[r].response[1].body
EmailOf(r) == req[r].body.email[1]
PasswordOf(r) == req[r].body.password[1]
Faulted(r) == req[r].fault # Undefined
Called(r, c) == \E i \in 1..Len(req[r].calls) : req[r].calls[i] = c
CallCount(r, c) == Cardinality({i \in 1..Len(req[r].calls) : req[r].calls[i] = c})

IsRegister(r) == req[r].route = "register"
IsLogin(r) == req[r].route = "login"

\* a document that was in the collection before the first request
PreExisting(e) == \E u \in usersCollection : u._id < FirstId /\ u.email = e

RegistersOf(e) == {r \in Requests : IsRegister(r) /\ req[r].body.email = Some(e)}

Reply409 ==
  [status |-> 409,
   body |-> [error |-> "An account with this email already exists", code |-> "DUPLICATE_EMAIL"]]

\* C1: when two or more register requests carry the same valid email that no
\* stored record has yet, and all of them have responded without an
\* infrastructure failure, then whatever the interleaving of their findOne,
\* hash and insertOne steps exactly one responded 201 and every other one
\* responded 409 DUPLICATE_EMAIL.
C1_ExactlyOneWinner ==
  \A e \in ValidEmails :
    LET G == RegistersOf(e) IN
    (/\ Cardinality(G) >= 2
     /\ ~PreExisting(e)
     /\ \A r \in G : Done(r) /\ ~Faulted(r))
    => /\ Cardinality({r \in G : Status(r) = 201}) = 1
       /\ \A r \in G : Status(r) # 201 => req[r].response[1] = Reply409

\* two registrations of one email that both passed the lookup, one rejected
\* by the index at insertion
C1_Witness ==
  \E r1, r2 \in Requests :
    /\ r1 # r2 /\ IsRegister(r1) /\ IsRegister(r2)
    /\ Done(r1) /\ Done(r2) /\ EmailOf(r1) = EmailOf(r2)
    /\ Status(r1) = 201 /\ Status(r2) = 409
    /\ Called(r2, "insertOne")

\* C2: in every reachable state the users collection holds at most one
\* record per email value, emails compared exactly as stored.
C2_UniqueEmail ==
  \A u, v \in usersCollection : u.email = v.email => u = v

\* the collection holds records whose emails differ only in case, and an
\* insertion has been rejected by the index
C2_Witness ==
  /\ \E u, v \in usersCollection : u.email = EmailA /\ v.email = EmailUpperA
  /\ \E r \in Requests : IsRegister(r) /\ Done(r) /\ Status(r) = 409 /\ Called(r, "insertOne")

\* C3: a register request that starts after a register request with the same
\* email has responded 201 responds 409 DUPLICATE_EMAIL with the message
\* "An account with this email already exists" and calls neither the hasher
\* nor insertOne (no infrastructure failure in the second request).
C3_SequentialDuplicate ==
  \A r1, r2 \in Requests :
    (/\ IsRegister(r1) /\ IsRegister(r2)
     /\ r1 \in req[r2].after /\ Status(r1) = 201
     /\ req[r2].body.email = req[r1].body.email
     /\ Done(r2) /\ ~Faulted(r2))
    => /\ req[r2].response[1] = Reply409
       /\ req[r2].calls = <<"findOne">>
       /\ ~Called(r2, "hash") /\ ~Called(r2, "insertOne")

C3_Witness ==
  \E r1, r2 \in Requests :
    /\ IsRegister(r1) /\ IsRegister(r2)
    /\ r1 \in req[r2].after /\ Status(r1) = 201
    /\ req[r2].body.email = req[r1].body.email
    /\ Done(r2) /\ Status(r2) = 409 /\ req[r2].calls = <<"findOne">>

\* the reply the ordered checks (1) email present, (2) password present,
\* (3) email of the form local@domain.tld, (4) password of 8 characters or
\* more call for; <<>> when all four pass
C4_Expected(body) ==
  IF Falsy(body.email, EmailEmpty)
    THEN Some([status |-> 400, body |-> [error |-> "Missing required field: email",
                                         code |-> "VALIDATION_ERROR", field |-> "email"]])
  ELSE IF Falsy(body.password, PasswordEmpty)
    THEN Some([status |-> 400, body |-> [error |-> "Missing required field: password",
                                         code |-> "VALIDATION_ERROR", field |-> "password"]])
  ELSE IF ~emailRegex(body.email[1])
    THEN Some([status |-> 400, body |-> [error |-> "Invalid email format",
                                         code |-> "VALIDATION_ERROR", field |-> "email"]])
  ELSE IF Len(body.password[1]) < 8
    THEN Some([status |-> 400, body |-> [error |-> "Password must be at least 8 characters long",
                                         code |-> "VALIDATION_ERROR", field |-> "password"]])
  ELSE Undefined

\* C4: a register request whose body fails one of the four ordered checks is
\* answered 400 VALIDATION_ERROR with the field and message of the first
\* failing check.
C4_FirstFailingCheck ==
  \A r \in Requests :
    (IsRegister(r) /\ Done(r) /\ C4_Expected(req[r].body) # Undefined)
    => req[r].response = C4_Expected(req[r].body)

\* C5: a login request whose email and password are both present is never
\* answered 400 and reaches the user lookup, also when the email is
\* malformed or the password is shorter than 8 characters.
C5_LoginPresenceOnly ==
  \A r \in Requests :
    (/\ IsLogin(r) /\ Done(r)
     /\ ~Falsy(req[r].body.email, EmailEmpty)
     /\ ~Falsy(req[r].body.password, PasswordEmpty))
    => Status(r) \in {200, 401, 500} /\ Called(r, "findOne")

Reply401 ==
  [status |-> 401, body |-> [error |-> "Invalid email or password", code |-> "INVALID_CREDENTIALS"]]

\* the lookup of a login found no record / found one whose hash the password
\* does not match
NoSuchUser(r) ==
  IsLogin(r) /\ Done(r) /\ ~Faulted(r) /\ req[r].calls = <<"findOne">>
WrongPasswordFor(r) ==
  /\ IsLogin(r) /\ Done(r) /\ ~Faulted(r) /\ req[r].user # Undefined
  /\ ~bcryptCompare(PasswordOf(r), req[r].user[1].passwordHash)

\* C6: a login for an email no record has and a login with a wrong password
\* for an existing record get the same response: status 401 and the body
\* {error: "Invalid email or password", code: "INVALID_CREDENTIALS"}.
C6_SameRejection ==
  \A r1, r2 \in Requests :
    (NoSuchUser(r1) /\ WrongPasswordFor(r2))
    => /\ req[r1].response = req[r2].response
       /\ req[r1].response[1] = Reply401

C6_Witness ==
  \E r1, r2 \in Requests :
    /\ NoSuchUser(r1) /\ WrongPasswordFor(r2)
    /\ Status(r1) = 401 /\ Status(r2) = 401
    /\ \E u \in usersCollection : u.email = EmailOf(r2)

\* C7: a login that finds a record and whose password matches responds 200
\* with {token, user: {id, email, role}}: id and email of the stored record,
\* role of the record or "user" when it has none, and a token signed over
\* the same userId, email and role; no other login responds 200.
C7_LoginSuccess ==
  \A r \in Requests :
    (IsLogin(r) /\ Done(r)) =>
      /\ (/\ ~Faulted(r) /\ req[r].user # Undefined
          /\ bcryptCompare(PasswordOf(r), req[r].user[1].passwordHash)) => Status(r) = 200
      /\ Status(r) = 200 =>
           /\ req[r].user # Undefined
           /\ LET user == req[r].user[1]
                  role == IF "role" \in DOMAIN user THEN user.role ELSE "user"
                  out == [id |-> IdToString(user._id), email |-> user.email, role |-> role]
              IN /\ user \in usersCollection
                 /\ user.email = EmailOf(r)
                 /\ ReplyBody(r) =
                      [token |-> jwtSign([userId |-> out.id, email |-> out.email, role |-> out.role]),
                       user |-> out]

\* a successful login on a record without a role
C7_Witness ==
  \E r \in Requests :
    /\ IsLogin(r) /\ Done(r) /\ Status(r) = 200
    /\ "role" \notin DOMAIN req[r].user[1] /\ ReplyBody(r).user.role = "user"

C9_RegisterSuccess ==
  \A r \in Requests :
    (IsRegister(r) /\ Done(r) /\ Status(r) = 201) =>
      /\ Called(r, "insertOne")
      /\ \E u \in usersCollection :
           /\ u.email = EmailOf(r)
           /\ u._id >= FirstId
           /\ \A q \in Requests : (IsRegister(q) /\ Done(q) /\ Status(q) = 201 /\ q # r)
                                    => ReplyBody(q).user.id # IdToString(u._id)
           /\ LET out == [id |-> IdToString(u._id), email |-> EmailOf(r), role |-> "user"]
              IN ReplyBody(r) =
                   [token |-> jwtSign([userId |-> out.id, email |-> out.email, role |-> out.role]),
                    user |-> out]

C9_Witness ==
  \E r, q \in Requests :
    /\ r # q
    /\ IsRegister(r) /\ Done(r) /\ Status(r) = 201
    /\ IsRegister(q) /\ Done(q) /\ Status(q) = 201
    /\ Cardinality({u \in usersCollection : u._id >= FirstId}) = 2

\* the insertion of r was rejected with an error other than a duplicate key
InsertFailed(r) ==
  /\ IsRegister(r) /\ Done(r) /\ Faulted(r)
  /\ Called(r, "insertOne") /\ ~Called(r, "sign")

Reply500Registration ==
  [status |-> 500, body |-> [error |-> "Failed to create account", code |-> "REGISTRATION_ERROR"]]

\* C10: a register request whose insertion fails with an error that is not a
\* uniqueness violation responds 500 {error: "Failed to create account",
\* code: "REGISTRATION_ERROR"} and logs one "Registration error" entry whose
\* context holds the error's message, its stack and the attempted email.
C10_InsertFailure ==
  /\ \A r \in Requests :
       InsertFailed(r) =>
         /\ req[r].response[1] = Reply500Registration
         /\ CallCount(r, "log") = 1
         /\ \E i \in 1..Len(log) :
              log[i] = [msg |-> "Registration error",
                        ctx |-> [error |-> req[r].fault[1].message,
                                 stack |-> req[r].fault[1].stack,
                                 email |-> EmailOf(r)]]
  /\ (\E r \in Requests : InsertFailed(r))
       => Len(log) = Cardinality({r \in Requests : Done(r) /\ Faulted(r)})

C10_Witness ==
  \E r \in Requests : InsertFailed(r) /\ Status(r) = 500 /\ Len(log) = 1

\* a registration answered by the pre-check / by the index at insertion
PreCheckDuplicate(r) ==
  /\ IsRegister(r) /\ Done(r) /\ ~Faulted(r)
  /\ req[r].calls = <<"findOne">> /\ req[r].user # Undefined
RacedDuplicate(r) ==
  /\ IsRegister(r) /\ Done(r) /\ ~Faulted(r)
  /\ Called(r, "insertOne") /\ ~Called(r, "sign")

\* C11: a registration rejected by the unique index at insertion gets the
\* response of a registration whose lookup found the email: status 409 with
\* {error: "An account with this email already exists", code:
\* "DUPLICATE_EMAIL"}; neither logs an error, neither responds 500.
C11_RaceSameAsPreCheck ==
  /\ \A r \in Requests :
       (PreCheckDuplicate(r) \/ RacedDuplicate(r))
       => /\ req[r].response[1] = Reply409
          /\ ~Called(r, "log")
  /\ \A r1, r2 \in Requests :
       (PreCheckDuplicate(r1) /\ RacedDuplicate(r2)) => req[r1].response = req[r2].response
  /\ (\A r \in Requests : ~Faulted(r)) => log = <<>>

C11_Witness ==
  \E r \in Requests :
    /\ RacedDuplicate(r) /\ Status(r) = 409
    /\ req[r].calls = <<"findOne", "hash", "insertOne">>
    /\ log = <<>>

\* the lookup or the comparison of login r failed
LoginCallFailed(r) ==
  IsLogin(r) /\ Done(r) /\ Faulted(r) /\ ~Called(r, "sign")

Reply500Login ==
  [status |-> 500, body |-> [error |-> "Failed to process login", code |-> "LOGIN_ERROR"]]

\* C12: a login whose lookup or password comparison fails responds 500
\* {error: "Failed to process login", code: "LOGIN_ERROR"}, never 200 or
\* 401, and logs one "Login error" entry whose context holds the error's
\* message, its stack and the submitted email.
C12_LoginFailure ==
  /\ \A r \in Requests :
       LoginCallFailed(r) =>
         /\ req[r].response[1] = Reply500Login
         /\ CallCount(r, "log") = 1
         /\ \E i \in 1..Len(log) :
              log[i] = [msg |-> "Login error",
                        ctx |-> [error |-> req[r].fault[1].message,
                                 stack |-> req[r].fault[1].stack,
                                 email |-> EmailOf(r)]]
  /\ Len(log) = Cardinality({r \in Requests : Done(r) /\ Faulted(r)})

\* a login whose comparison failed, after its lookup found the record
C12_Witness ==
  \E r \in Requests :
    /\ LoginCallFailed(r) /\ Called(r, "compare")
    /\ req[r].fault = Some(ErrInternal) /\ Status(r) = 500

\* C13: the body of a 500 response depends on the route only, not on the
\* error behind it (store, hasher, comparer or signer): it is the fixed
\* message and code, and two 500 responses of one route are equal.
C13_OpaqueFailure ==
  /\ \A r \in Requests :
       (Done(r) /\ Faulted(r)) =>
         /\ IsRegister(r) => req[r].response[1] = Reply500Registration
         /\ IsLogin(r) => req[r].response[1] = Reply500Login
  /\ \A r \in Requests :
       (Done(r) /\ Status(r) = 500) =>
         /\ Faulted(r)
         /\ DOMAIN ReplyBody(r) = {"error", "code"}
         /\ ReplyBody(r).error \notin {ErrConnection.message, ErrInternal.message,
                                       ErrConnection.stack, ErrInternal.stack}
  /\ \A r1, r2 \in Requests :
       (/\ Done(r1) /\ Done(r2) /\ req[r1].route = req[r2].route
        /\ Status(r1) = 500 /\ Status(r2) = 500)
       => ReplyBody(r1) = ReplyBody(r2)

\* a 500 caused by the token signer, after the store and the library calls
\* before it went through
C13_Witness ==
  \E r \in Requests :
    /\ Done(r) /\ Status(r) = 500 /\ Called(r, "sign")
    /\ req[r].fault = Some(ErrInternal)

\* C14: every step keeps the records of the users collection as they are
\* (same email, passwordHash, role and createdAt); a step of a login request
\* leaves the collection unchanged, and the only step that adds a record is
\* the insertion of a register request, which adds one record.
C14_RecordsKept ==
  [][/\ usersCollection \subseteq usersCollection'
     /\ \A r \in Requests :
          (req'[r] # req[r] /\ req'[r].route = "login") => usersCollection' = usersCollection
     /\ usersCollection' # usersCollection =>
          \E r \in Requests :
            /\ req[r].route = "register" /\ req[r].pc = "insertOne" /\ req'[r].pc = "done"
            /\ Cardinality(usersCollection' \ usersCollection) = 1
            /\ \A u \in usersCollection' \ usersCollection : u.email = req[r].body.email[1]]_vars

\* a record older than the requests, a registered record and a finished
\* login side by side
C14_Witness ==
  /\ LegacyUser \in usersCollection
  /\ \E u \in usersCollection : u._id >= FirstId
  /\ \E r \in Requests : IsLogin(r) /\ Done(r) /\ Called(r, "findOne")

UserFields == {"_id", "email", "passwordHash", "role", "createdAt"}

\* C15: every record a register request inserted holds as passwordHash the
\* hasher's output for the submitted password at cost factor 10, not the
\* password, together with the role "user" and a createdAt timestamp.
C15_StoredHash ==
  \A u \in usersCollection :
    u._id >= FirstId =>
      /\ DOMAIN u = UserFields
      /\ u.role = "user"
      /\ u.createdAt \in Nat /\ u.createdAt >= 1
      /\ u.passwordHash.alg = "bcrypt" /\ u.passwordHash.cost = 10
      /\ \E r \in Requests :
           /\ IsRegister(r) /\ req[r].newUser # Undefined
           /\ u = [_id |-> u._id] @@ req[r].newUser[1]
           /\ u.email = EmailOf(r)
           /\ u.passwordHash.pw = PasswordOf(r)
           /\ u.passwordHash.salt = r

C15_Witness ==
  \E r \in Requests :
    /\ IsRegister(r) /\ Done(r) /\ Status(r) = 201
    /\ \E u \in usersCollection :
         /\ u._id = req[r].insertedId[1]
         /\ u.passwordHash.cost = 10 /\ u.passwordHash.pw = PasswordGood

\* the record register request r built is in the collection
RecordOf(r) ==
  {u \in usersCollection :
     req[r].newUser # Undefined /\ u = [_id |-> u._id] @@ req[r].newUser[1]}

\* C18: a register request that responded with a status other than 201 (400,
\* 409 or 500, a failure of the token signing included) has left no record
\* of its own in the users collection.
C18_NoRecordOnFailure ==
  \A r \in Requests :
    (IsRegister(r) /\ Done(r) /\ Status(r) # 201) => RecordOf(r) = {}

\* the calls of request r to the store, the hasher and the signer, in order
AwaitedCalls(r) == SelectSeq(req[r].calls, LAMBDA c : c # "log")
IsPrefix(s, t) == Len(s) <= Len(t) /\ SubSeq(t, 1, Len(s)) = s
RegisterPass == <<"findOne", "hash", "insertOne", "sign">>
LoginPass == <<"findOne", "compare", "sign">>

\* C20: single pass without retries. The calls of a register request are a
\* prefix of findOne, hash, insertOne, sign and those of a login request a
\* prefix of findOne, compare, sign (each at most once, in that order), and a
\* request one of whose calls failed has ended.
C20_SinglePass ==
  \A r \in Requests :
    /\ IsRegister(r) => IsPrefix(AwaitedCalls(r), RegisterPass)
    /\ IsLogin(r) => IsPrefix(AwaitedCalls(r), LoginPass)
    /\ Faulted(r) => Done(r)
    /\ (IsRegister(r) /\ Done(r) /\ Status(r) = 409) => ~Called(r, "sign")

C20_Witness ==
  \E r, q \in Requests :
    /\ IsRegister(r) /\ Done(r) /\ Faulted(r) /\ AwaitedCalls(r) = <<"findOne", "hash">>
    /\ IsLogin(q) /\ Done(q) /\ AwaitedCalls(q) = LoginPass

Pending(r) == req[r].pc \notin {"idle", "done"}
RegisterStatuses == {201, 400, 409, 500}
LoginStatuses == {200, 400, 401, 500}

\* C19: provided every awaited call eventually returns or fails, every
\* register request in flight eventually responds, with a status in
\* {201, 400, 409, 500}, and every login request in flight eventually
\* responds, with a status in {200, 400, 401, 500} (from some point on no
\* request is in flight any more); a request has a response exactly when it
\* has ended, and its response never changes afterwards.
C19_OneResponse ==
  /\ [](\A r \in Requests :
          /\ Done(r) <=> req[r].response # Undefined
          /\ (Done(r) /\ IsRegister(r)) => Status(r) \in RegisterStatuses
          /\ (Done(r) /\ IsLogin(r)) => Status(r) \in LoginStatuses)
  /\ [][\A r \in Requests : Done(r) => req'[r] = req[r]]_vars
  /\ <>[](\A r \in Requests : ~Pending(r))

C19_Witness ==
  \E r, q \in Requests :
    /\ r # q
    /\ IsRegister(r) /\ Done(r) /\ Status(r) = 500
    /\ IsLogin(q) /\ Pending(q)

QrDone(q) == qrReq[q].pc = "done"
QrStatus(q) == qrReq[q].response[1].status
QrBody(q) == qrReq[q].response[1].body
QrGenerateOk(q) == qrReq[q].route = "generate" /\ QrDone(q) /\ QrStatus(q) = 200
QrStoreFailed(q) == QrDone(q) /\ qrReq[q].fault # Undefined

C17_StoreFailureHandled ==
  \A q \in QrRequests : QrStoreFailed(q) =>
    /\ DOMAIN QrBody(q) = {"error", "code"}
    /\ \A f \in DOMAIN QrBody(q) \ {"statusCode"} : QrBody(q)[f] # qrReq[q].fault[1].message

ValidationRejected(r) ==
  Done(r) /\ Status(r) = 400 /\ ReplyBody(r).code = "VALIDATION_ERROR"

\* C23: a register or login request answered 400 VALIDATION_ERROR has made no
\* call to the users store, the hasher or comparer, the token signer or the
\* error logger, and the step that answers it changes neither the users
\* store nor the log.
C23_ValidationNoEffect ==
  /\ [](\A r \in Requests : ValidationRejected(r) =>
          /\ req[r].calls = <<>>
          /\ req[r].user = Undefined /\ req[r].newUser = Undefined
          /\ req[r].insertedId = Undefined /\ ~Faulted(r))
  /\ [][\A r \in Requests :
          (~Done(r) /\ ValidationRejected(r)') =>
            /\ usersCollection' = usersCollection
            /\ log' = log /\ nextId' = nextId]_vars

C23_Witness ==
  \E r \in Requests : ValidationRejected(r) /\ IsLogin(r) /\ ReplyBody(r).field = "password"

\* C22: a login request responds 200 only if its lookup returned a record
\* that was in the users store at the time of the lookup, with exactly the
\* submitted email, and the submitted password is the one the record's
\* passwordHash was made from; a record made by a registration is returned
\* only after that registration has inserted it.
C22_LoginOnlyStored ==
  /\ [][\A r \in Requests :
          (IsLogin(r) /\ req[r].user = Undefined /\ req'[r].user # Undefined) =>
            /\ req[r].pc = "findOne"
            /\ req'[r].user[1] \in usersCollection
            /\ req'[r].user[1].email = EmailOf(r)]_vars
  /\ [](\A r \in Requests : (IsLogin(r) /\ Done(r) /\ Status(r) = 200) =>
          /\ req[r].user # Undefined
          /\ req[r].user[1] \in usersCollection
          /\ req[r].user[1].email = EmailOf(r)
          /\ req[r].user[1].passwordHash.pw = PasswordOf(r)
          /\ req[r].user[1]._id >= FirstId =>
               \E q \in Requests :
                 /\ IsRegister(q) /\ Called(q, "insertOne") /\ Done(q)
                 /\ RecordOf(q) = {req[r].user[1]})

\* a login answered 200 for an email whose registration was still in flight
\* when the login arrived
C22_Witness ==
  \E r, q \in Requests :
    /\ IsLogin(r) /\ Done(r) /\ Status(r) = 200
    /\ IsRegister(q) /\ Done(q) /\ Status(q) = 201 /\ q \notin req[r].after
    /\ req[r].user[1]._id = req[q].insertedId[1]

Started(r) == req[r].route # "none"
InitialStore == {u \in usersCollection : u._id < FirstId}
Credentials(store) == {<<u.email, u.passwordHash.pw>> : u \in store}
DistinctEmails ==
  \A r, q \in Requests :
    (Started(r) /\ Started(q) /\ r # q) => req[r].body.email # req[q].body.email
Undisturbed == DistinctEmails /\ \A r \in Requests : ~Faulted(r)

\* status of request r when the requests run one after another: with pairwise
\* different emails it depends on the initial store and the body of r only
SequentialStatus(r) ==
  LET known == {u \in InitialStore : u.email = EmailOf(r)} IN
  IF IsRegister(r)
    THEN IF known # {} THEN 409 ELSE 201
    ELSE IF \E u \in known : u.passwordHash.pw = PasswordOf(r) THEN 200 ELSE 401

\* the response of r is the one of the sequential run (the id of a new
\* record, which the store generates, is the id of the record of r)
SequentialResponse(r) ==
  /\ Status(r) = SequentialStatus(r)
  /\ Status(r) = 409 => ReplyBody(r) = Reply409.body
  /\ Status(r) = 401 => ReplyBody(r) = Reply401.body
  /\ Status(r) = 201 =>
       \E u \in RecordOf(r) :
         /\ ReplyBody(r).user = [id |-> ToString(u._id), email |-> EmailOf(r), role |-> "user"]
         /\ ReplyBody(r).token.jwt =
              [userId |-> ToString(u._id), email |-> EmailOf(r), role |-> "user"]
  /\ Status(r) = 200 =>
       \E u \in InitialStore :
         /\ u.email = EmailOf(r)
         /\ ReplyBody(r).user = [id |-> ToString(u._id), email |-> u.email, role |-> "user"]
         /\ ReplyBody(r).token.jwt =
              [userId |-> ToString(u._id), email |-> u.email, role |-> "user"]

\* C21: requests are independent. For register and login requests on
\* pairwise different emails none of whose calls failed, under every
\* interleaving each request gets the response of the sequential run, and
\* once all have ended the users store holds the initial records and one
\* record per accepted registration, as after the sequential run; a step of
\* a handler changes the locals of its own request only.
C21_Independent ==
  /\ [](Undisturbed =>
          /\ \A r \in Requests : Done(r) => SequentialResponse(r)
          /\ (\A r \in Requests : Started(r) => Done(r)) =>
               /\ Credentials(usersCollection) =
                    Credentials(InitialStore) \cup
                      {<<EmailOf(r), PasswordOf(r)>> :
                         r \in {q \in Requests : Started(q) /\ IsRegister(q)
                                                  /\ SequentialStatus(q) = 201}}
               /\ Cardinality(usersCollection) = Cardinality(Credentials(usersCollection)))
  /\ [][\A r, q \in Requests : (r # q /\ req'[r] # req[r]) => req'[q] = req[q]]_vars

\* a registration and a login on different emails whose steps interleaved
C21_Witness ==
  /\ Undisturbed
  /\ \E r, q \in Requests :
       /\ IsRegister(r) /\ Done(r) /\ Status(r) = 201
       /\ IsLogin(q) /\ Done(q) /\ Status(q) = 200
       /\ r \notin req[q].after /\ q \notin req[r].after

====
